---- MODULE Spec2Model ----
(***************************************************************************)
(* The article store of saga-be: ArticleStorageManager                     *)
(* (src/src/storage/article_manager.py) and the ingest route that drives   *)
(* it (src/src/api/routes/articles.py).                                    *)
(*                                                                         *)
(* Encoding of the Python values:                                          *)
(*  - a string that the code takes apart (a publication date) is a         *)
(*    sequence of one-character strings; other strings are TLA+ strings;   *)
(*  - a dict is a function whose DOMAIN is its set of keys (`k in d` is    *)
(*    k \in DOMAIN d), holding the scalar fields;                          *)
(*  - an article is the chain of dicts reached through the key "data":     *)
(*    <<d1, d2, ..., dn>> is d1 with d1["data"] = d2, ..., and dn is the   *)
(*    innermost dict, whose "data" (if any) is not a dict.  So             *)
(*    isinstance(d1.get("data"), dict) is Len(article) > 1;                *)
(*  - a file is [dir, id, body, mtime]: {root}/{dir}/{id}.json holding the *)
(*    JSON of body; dir = <<>> is the root itself; mtime is the rank of    *)
(*    the file's st_mtime among the files (1 = the oldest).                *)
(***************************************************************************)
EXTENDS Naturals, Sequences, FiniteSets, TLC

VARIABLES
    disk,          \* the files under data_dir
    today_str,     \* self.today_str, fixed by __init__
    article_ids,   \* self.article_ids
    url_to_id,     \* self.url_to_id: a dict, here a function on its keys
    pc,            \* "idle", "gen" inside generate_article_id's loop, or "match"
                   \* before one keyword pattern is searched in one text
    new_id,        \* generate_article_id's local new_id (last candidate drawn)
    pending,       \* the article of the ingest call waiting for generate_article_id
    ret,           \* the last completed call: its name, argument and outcome
                   \* (in SpecRace, where the calls of two threads interleave, pc,
                   \* new_id, pending and ret are functions of the thread)
    first_url,     \* history: per url, the argos_id of the first store that wrote a file with it
    gen_since      \* history: ids returned by generate_article_id since the last store

vars == <<disk, today_str, article_ids, url_to_id, pc, new_id, pending, ret,
          first_url, gen_since>>

-----------------------------------------------------------------------------
(* Values *)

\* Python's None (for string-valued results) and the falsy strings.
None == "None"
Truthy(v) == v \notin {None, ""}

\* The depth of the deepest chain of "data" dicts an input article has.
MaxDepth == 3

Ids == {"A", "B"}
Urls == {"u", "v"}

\* "2024-03-15", "2024-03-15T10:00:00Z" and "2025-11-04" as character sequences.
D1 == <<"2", "0", "2", "4", "-", "0", "3", "-", "1", "5">>
D1T == D1 \o <<"T", "1", "0", ":", "0", "0", ":", "0", "0", "Z">>
D2 == <<"2", "0", "2", "5", "-", "1", "1", "-", "0", "4">>
\* "Tue, 15 Mar 2024": a publication date in the RFC 822 form of RSS feeds.
DTue == <<"T", "u", "e", ",", " ", "1", "5", " ", "M", "a", "r", " ", "2", "0", "2", "4">>
\* The day the manager is constructed: datetime.now().strftime("%Y-%m-%d").
Today == D2

EmptyDict == [k \in {} |-> ""]
Has(d, k) == k \in DOMAIN d
\* d.get(k) for a string-valued key
Get(d, k) == IF Has(d, k) THEN d[k] ELSE None
\* d.get(k) for a date-valued key; None is rendered as the (equally falsy) ""
GetDate(d, k) == IF Has(d, k) THEN d[k] ELSE <<>>
\* d[k] = v on a dict
SetKey(d, k, v) == [x \in DOMAIN d \cup {k} |-> IF x = k THEN v ELSE d[x]]

-----------------------------------------------------------------------------
(* The articles the callers send *)

DateFields == {EmptyDict, [pubDate |-> D1], [pubDate |-> D1T], [published_date |-> D1],
               [pubDate |-> D2, published_date |-> D1], [pubDate |-> DTue]}

\* Flat articles (one dict, no "data" dict inside): an id and url "u" with every
\* shape of the date fields; an id with every url or none; and articles without id.
FlatDicts ==
    {[argos_id |-> i, url |-> "u"] @@ d : i \in Ids, d \in DateFields}
        \cup {[argos_id |-> i] : i \in Ids}
        \cup {[argos_id |-> i, url |-> "v"] : i \in Ids}
        \cup {[url |-> "u"], [argos_id |-> "", url |-> "u"], [title |-> <<"t">>]}

\* Dicts that occur inside a "data" wrapper, and the wrapper dicts around them
\* (a wrapper's other keys; its "data" key is the next dict of the chain).
InnerDicts == {[argos_id |-> i, url |-> "v"] : i \in Ids} \cup {[title |-> <<"t">>]}
Wrappers == {EmptyDict, [argos_id |-> "A"], [url |-> "u"]}

\* The chains of n dicts: a wrapper around an inner dict, then empty wrappers around that.
RECURSIVE Chains(_)
Chains(n) == IF n = 2 THEN {<<w, d>> : w \in Wrappers, d \in InnerDicts}
             ELSE {<<EmptyDict>> \o c : c \in Chains(n - 1)}

Articles == {<<d>> : d \in FlatDicts} \cup UNION {Chains(n) : n \in 2..MaxDepth}

\* A file whose content is not JSON.
Corrupt == <<>>
NoPending == <<>>

-----------------------------------------------------------------------------
(* Pure functions of article_manager.py *)

\* unwrap_article: descend while the "data" value is a dict holding "url" or "argos_id".
RECURSIVE unwrap_article(_)
unwrap_article(article) ==
    IF Len(article) > 1 /\ (Has(article[2], "url") \/ Has(article[2], "argos_id"))
    THEN unwrap_article(Tail(article))
    ELSE article

\* The whole publication date taken as the directory name (no split at "T").
SplitT0_whole(s) == s

\* pub_date.split("T")[0]
SplitT0(s) ==
    LET ts == {i \in 1..Len(s) : s[i] = "T"}
    IN  IF ts = {} THEN s
        ELSE SubSeq(s, 1, (CHOOSE i \in ts : \A j \in ts : i <= j) - 1)

\* article_data.get("pubDate") or article_data.get("published_date")
PubDate(d) ==
    IF GetDate(d, "pubDate") # <<>> THEN GetDate(d, "pubDate")
    ELSE GetDate(d, "published_date")

\* The directory store_article writes a new article to (relative to data_dir).
TargetDir(d, today) ==
    IF PubDate(d) # <<>> THEN SplitT0(PubDate(d)) ELSE today

\* open(file_path, "w"); json.dump: the file is created or replaced, and is then
\* the most recently modified one (the other files keep their order).
WriteFile(files, dir, id, body) ==
    LET kept == {f \in files : ~(f.dir = dir /\ f.id = id)}
        Rank(f) == Cardinality({g \in kept : g.mtime <= f.mtime})
    IN  {[f EXCEPT !.mtime = Rank(f)] : f \in kept}
            \cup {[dir |-> dir, id |-> id, body |-> body,
                   mtime |-> Cardinality(kept) + 1]}

\* url_to_id.get(url), behind find_article_by_url's guard
find_article_by_url(cache, url) ==
    IF ~Truthy(url) THEN None ELSE Get(cache, url)

\* store_article without the known-id test of lines 56-58.
store_article_always_writes(article_data, files, ids, cache, today) ==
    LET a == unwrap_article(article_data)
        argos_id == Get(a[1], "argos_id")
        url == Get(a[1], "url")
    IN  IF ~Truthy(argos_id)
        THEN [disk |-> files, ids |-> ids, cache |-> cache,
              val |-> None, status |-> "ValueError"]
        ELSE [disk |-> WriteFile(files, TargetDir(a[1], today), argos_id, a),
              ids |-> ids \cup {argos_id},
              cache |-> IF Truthy(url) THEN SetKey(cache, url, argos_id) ELSE cache,
              val |-> argos_id, status |-> "stored"]

\* store_article with a transposed test: an id that is already known is written.
store_article_skips_new(article_data, files, ids, cache, today) ==
    LET a == unwrap_article(article_data)
        argos_id == Get(a[1], "argos_id")
        url == Get(a[1], "url")
    IN  IF ~Truthy(argos_id)
        THEN [disk |-> files, ids |-> ids, cache |-> cache,
              val |-> None, status |-> "ValueError"]
        ELSE IF argos_id \in ids
        THEN [disk |-> WriteFile(files, TargetDir(a[1], today), argos_id, a),
              ids |-> ids,
              cache |-> IF Truthy(url) THEN SetKey(cache, url, argos_id) ELSE cache,
              val |-> argos_id, status |-> "skipped"]
        ELSE [disk |-> WriteFile(files, TargetDir(a[1], today), argos_id, a),
              ids |-> ids \cup {argos_id},
              cache |-> IF Truthy(url) THEN SetKey(cache, url, argos_id) ELSE cache,
              val |-> argos_id, status |-> "stored"]

\* store_article without the `if url:` guard of line 82: a missing url is cached too.
store_article_caches_none(article_data, files, ids, cache, today) ==
    LET a == unwrap_article(article_data)
        argos_id == Get(a[1], "argos_id")
        url == Get(a[1], "url")
    IN  IF ~Truthy(argos_id)
        THEN [disk |-> files, ids |-> ids, cache |-> cache,
              val |-> None, status |-> "ValueError"]
        ELSE IF argos_id \in ids
        THEN [disk |-> files, ids |-> ids, cache |-> cache,
              val |-> argos_id, status |-> "skipped"]
        ELSE [disk |-> WriteFile(files, TargetDir(a[1], today), argos_id, a),
              ids |-> ids \cup {argos_id},
              cache |-> SetKey(cache, url, argos_id),
              val |-> argos_id, status |-> "stored"]

\* store_article with the id test of lines 52-54 moved behind the cache update.
store_article_indexes_unidentified(article_data, files, ids, cache, today) ==
    LET a == unwrap_article(article_data)
        argos_id == Get(a[1], "argos_id")
        url == Get(a[1], "url")
    IN  IF ~Truthy(argos_id)
        THEN [disk |-> files, ids |-> ids,
              cache |-> IF Truthy(url) THEN SetKey(cache, url, argos_id) ELSE cache,
              val |-> None, status |-> "ValueError"]
        ELSE IF argos_id \in ids
        THEN [disk |-> files, ids |-> ids, cache |-> cache,
              val |-> argos_id, status |-> "skipped"]
        ELSE [disk |-> WriteFile(files, TargetDir(a[1], today), argos_id, a),
              ids |-> ids \cup {argos_id},
              cache |-> IF Truthy(url) THEN SetKey(cache, url, argos_id) ELSE cache,
              val |-> argos_id, status |-> "stored"]

\* store_article without line 80: the written id is not added to article_ids.
store_article_forgets_id(article_data, files, ids, cache, today) ==
    LET a == unwrap_article(article_data)
        argos_id == Get(a[1], "argos_id")
        url == Get(a[1], "url")
    IN  IF ~Truthy(argos_id)
        THEN [disk |-> files, ids |-> ids, cache |-> cache,
              val |-> None, status |-> "ValueError"]
        ELSE IF argos_id \in ids
        THEN [disk |-> files, ids |-> ids, cache |-> cache,
              val |-> argos_id, status |-> "skipped"]
        ELSE [disk |-> WriteFile(files, TargetDir(a[1], today), argos_id, a),
              ids |-> ids,
              cache |-> IF Truthy(url) THEN SetKey(cache, url, argos_id) ELSE cache,
              val |-> argos_id, status |-> "stored"]

\* store_article on the state (files, ids, cache): the new state and the outcome.
store_article(article_data, files, ids, cache, today) ==
    LET a == unwrap_article(article_data)
        argos_id == Get(a[1], "argos_id")
        url == Get(a[1], "url")
    IN  IF ~Truthy(argos_id)
        THEN [disk |-> files, ids |-> ids, cache |-> cache,
              val |-> None, status |-> "ValueError"]
        ELSE IF argos_id \in ids
        THEN [disk |-> files, ids |-> ids, cache |-> cache,
              val |-> argos_id, status |-> "skipped"]
        ELSE [disk |-> WriteFile(files, TargetDir(a[1], today), argos_id, a),
              ids |-> ids \cup {argos_id},
              cache |-> IF Truthy(url) THEN SetKey(cache, url, argos_id) ELSE cache,
              val |-> argos_id, status |-> "stored"]

\* get_article: the file of the first date directory (in iterdir order, which the
\* file system chooses) that holds {id}.json; json.load raises on a corrupt file.
get_article(files, article_id) ==
    LET found == {f \in files : f.id = article_id /\ f.dir # <<>>}
    IN  IF found = {} THEN {[status |-> "ok", body |-> <<>>, found |-> FALSE]}
        ELSE {IF f.body = Corrupt
              THEN [status |-> "JSONDecodeError", body |-> <<>>, found |-> FALSE]
              ELSE [status |-> "ok", body |-> f.body, found |-> TRUE] : f \in found}

\* bool(article) for a get_article result: None and {} are falsy.
TruthyArticle(g) == g.found /\ ~(Len(g.body) = 1 /\ DOMAIN g.body[1] = {})

\* _load_existing_ids: every *.json below data_dir, by file name.
LoadExistingIds(files) == {f.id : f \in files}

\* The orders in which _build_url_cache can meet the files: date directory by
\* date directory (iterdir), the files of one directory together (glob).
ScanOrders(files) ==
    LET scanned == {f \in files : f.dir # <<>>}
        n == Cardinality(scanned)
    IN  {s \in [1..n -> scanned] :
            /\ \A i, j \in 1..n : i # j => s[i] # s[j]
            /\ \A i, j, k \in 1..n :
                   (i < j /\ j < k /\ s[i].dir = s[k].dir) => s[j].dir = s[i].dir}

\* _build_url_cache over the files in the order met; unreadable files are skipped.
RECURSIVE BuildUrlCache(_, _)
BuildUrlCache(order, cache) ==
    IF order = <<>> THEN cache
    ELSE LET f == Head(order)
             url == IF f.body = Corrupt THEN None ELSE Get(f.body[1], "url")
         IN  BuildUrlCache(Tail(order),
                           IF Truthy(url) THEN SetKey(cache, url, f.id) ELSE cache)

-----------------------------------------------------------------------------
(* Strings as character sequences: str.lower, str.strip, comparison, and the    *)
(* keyword patterns of _build_keyword_pattern                                   *)

UpperChars == <<"A", "B", "C", "D", "E", "F", "G", "H", "I", "J", "K", "L", "M",
                "N", "O", "P", "Q", "R", "S", "T", "U", "V", "W", "X", "Y", "Z">>
LowerChars == <<"a", "b", "c", "d", "e", "f", "g", "h", "i", "j", "k", "l", "m",
                "n", "o", "p", "q", "r", "s", "t", "u", "v", "w", "x", "y", "z">>
DigitChars == <<"0", "1", "2", "3", "4", "5", "6", "7", "8", "9">>
\* The characters of the model in code-point order (what Python compares strings by).
CharOrder == <<" ", ",", "-", ".", "/">> \o DigitChars \o <<":">> \o UpperChars \o LowerChars
Ord(c) == CHOOSE i \in 1..Len(CharOrder) : CharOrder[i] = c

\* a < b for two strings
RECURSIVE StrLess(_, _)
StrLess(a, b) ==
    IF b = <<>> THEN FALSE
    ELSE IF a = <<>> THEN TRUE
    ELSE IF Head(a) = Head(b) THEN StrLess(Tail(a), Tail(b))
    ELSE Ord(Head(a)) < Ord(Head(b))

\* a < b for two file names {id}.json; the ids of the model are one character long.
NameLess(a, b) == Ord(a) < Ord(b)

\* str.lower()
LowerChar ==
    [c \in {CharOrder[i] : i \in 1..Len(CharOrder)} |->
        IF \E i \in 1..26 : UpperChars[i] = c
        THEN LowerChars[CHOOSE i \in 1..26 : UpperChars[i] = c]
        ELSE c]
Lower(s) == [i \in 1..Len(s) |-> LowerChar[s[i]]]

\* The whitespace of the model (\s, and what str.strip removes).
Whitespace == {" "}
\* str.strip()
Strip(s) ==
    LET keep == {i \in 1..Len(s) : s[i] \notin Whitespace}
    IN  IF keep = {} THEN <<>>
        ELSE SubSeq(s, CHOOSE i \in keep : \A j \in keep : i <= j,
                       CHOOSE i \in keep : \A j \in keep : j <= i)

\* The character classes of the pattern: [-/\s] and [a-z0-9].
Separators == {"-", "/"} \cup Whitespace
\* A character class that holds nothing: the pattern without its two boundary tests.
IsAlnum_never(c) == FALSE

AlnumChars == {LowerChars[i] : i \in 1..26} \cup {DigitChars[j] : j \in 1..10}
IsAlnum(c) == c \in AlnumChars

\* re.split(r"[-/\s]+", s): the pieces between the runs of separators, empty
\* pieces at the two ends included.
RECURSIVE ReSplitFrom(_, _, _, _)
ReSplitFrom(s, i, cur, acc) ==
    IF i > Len(s) THEN Append(acc, cur)
    ELSE IF s[i] \in Separators
    THEN IF i > 1 /\ s[i - 1] \in Separators
         THEN ReSplitFrom(s, i + 1, cur, acc)
         ELSE ReSplitFrom(s, i + 1, <<>>, Append(acc, cur))
    ELSE ReSplitFrom(s, i + 1, Append(cur, s[i]), acc)
ReSplit(s) == ReSplitFrom(s, 1, <<>>, <<>>)

\* _build_keyword_pattern: the literals of the pattern, between which one optional
\* separator is allowed; the whole stripped keyword when it has no token.
build_keyword_pattern(kw) ==
    LET s == Strip(Lower(kw))
        parts == SelectSeq(ReSplit(s), LAMBDA p : p # <<>>)
    IN  IF parts = <<>> THEN <<s>> ELSE parts

\* The literals toks match text from position pos on, with (?:[-/\s]?) between
\* them and (?![a-z0-9]) after the last.
RECURSIVE MatchAt(_, _, _)
MatchAt(toks, text, pos) ==
    LET t == Head(toks)
        e == pos + Len(t)
    IN  /\ e - 1 <= Len(text)
        /\ SubSeq(text, pos, e - 1) = t
        /\ IF Len(toks) = 1
           THEN e > Len(text) \/ ~IsAlnum(text[e])
           ELSE \/ MatchAt(Tail(toks), text, e)
                \/ e <= Len(text) /\ text[e] \in Separators
                                  /\ MatchAt(Tail(toks), text, e + 1)

\* pat.search(text) without the (?<![a-z0-9]) in front of the pattern.
PatternSearch_no_lookbehind(toks, text) ==
    \E start \in 1..(Len(text) + 1) : MatchAt(toks, text, start)

\* pat.search(text): a match starts somewhere, not right after [a-z0-9].
PatternSearch(toks, text) ==
    \E start \in 1..(Len(text) + 1) :
        /\ start = 1 \/ ~IsAlnum(text[start - 1])
        /\ MatchAt(toks, text, start)

-----------------------------------------------------------------------------

(* list_articles and search_by_keywords *)

\* The directories under data_dir that hold a file.
DateDirs(files) == {f.dir : f \in files} \ {<<>>}

\* sorted(..., reverse=True) of directories by name, of files by name, and of
\* files by st_mtime.
RECURSIVE DirsDescending(_)
DirsDescending(dirs) ==
    IF dirs = {} THEN <<>>
    ELSE LET top == CHOOSE d \in dirs : \A e \in dirs \ {d} : StrLess(e, d)
         IN  <<top>> \o DirsDescending(dirs \ {top})

\* The files sorted by name without reverse=True.
RECURSIVE ByName_ascending(_)
ByName_ascending(fs) ==
    IF fs = {} THEN <<>>
    ELSE LET top == CHOOSE f \in fs : \A g \in fs \ {f} : NameLess(f.id, g.id)
         IN  <<top>> \o ByName_ascending(fs \ {top})

RECURSIVE ByNameDescending(_)
ByNameDescending(fs) ==
    IF fs = {} THEN <<>>
    ELSE LET top == CHOOSE f \in fs : \A g \in fs \ {f} : NameLess(g.id, f.id)
         IN  <<top>> \o ByNameDescending(fs \ {top})

\* The files sorted by st_mtime without reverse=True: the oldest first.
RECURSIVE ByMtime_oldest_first(_)
ByMtime_oldest_first(fs) ==
    IF fs = {} THEN <<>>
    ELSE LET top == CHOOSE f \in fs : \A g \in fs \ {f} : f.mtime < g.mtime
         IN  <<top>> \o ByMtime_oldest_first(fs \ {top})

RECURSIVE ByMtimeDescending(_)
ByMtimeDescending(fs) ==
    IF fs = {} THEN <<>>
    ELSE LET top == CHOOSE f \in fs : \A g \in fs \ {f} : g.mtime < f.mtime
         IN  <<top>> \o ByMtimeDescending(fs \ {top})

InDir(files, dir) == {f \in files : f.dir = dir}

\* The files in the order list_articles meets them: directory by directory,
\* within a directory the most recently modified first.
RECURSIVE ListOrder(_, _)
ListOrder(files, dirs) ==
    IF dirs = <<>> THEN <<>>
    ELSE ByMtimeDescending(InDir(files, Head(dirs))) \o ListOrder(files, Tail(dirs))

\* list_articles' loop where an unreadable file is appended as an (empty) entry.
RECURSIVE ListScan_appends_unreadable(_, _, _)
ListScan_appends_unreadable(order, limit, articles) ==
    IF order = <<>> \/ Len(articles) >= limit THEN articles
    ELSE ListScan_appends_unreadable(Tail(order), limit,
                                     Append(articles, Head(order).body))

\* list_articles' loop (lines 108-119): stop at limit articles; a file that
\* json.load cannot read is skipped.
RECURSIVE ListScan(_, _, _)
ListScan(order, limit, articles) ==
    IF order = <<>> \/ Len(articles) >= limit THEN articles
    ELSE IF Head(order).body = Corrupt THEN ListScan(Tail(order), limit, articles)
    ELSE ListScan(Tail(order), limit, Append(articles, Head(order).body))

\* list_articles(limit, date); date is <<>> when no date is given.
list_articles(files, limit, date) ==
    LET search_dirs == IF date # <<>>
                       THEN IF date \in DateDirs(files) THEN <<date>> ELSE <<>>
                       ELSE DirsDescending(DateDirs(files))
        articles == ListScan(ListOrder(files, search_dirs), limit, <<>>)
    IN  SubSeq(articles, 1, IF Len(articles) < limit THEN Len(articles) ELSE limit)

\* search_by_keywords' keyword list without the `seen` test of lines 225-226.
RECURSIVE PrepareKeywords_no_dedup(_, _)
PrepareKeywords_no_dedup(keywords, kw_lower) ==
    IF keywords = <<>> THEN kw_lower
    ELSE IF Head(keywords) = <<>> THEN PrepareKeywords_no_dedup(Tail(keywords), kw_lower)
    ELSE PrepareKeywords_no_dedup(Tail(keywords), Append(kw_lower, Lower(Head(keywords))))

\* search_by_keywords, lines 219-228: the keywords lowercased, empty ones and
\* repeats dropped, in the order given.
RECURSIVE PrepareKeywords(_, _)
PrepareKeywords(keywords, kw_lower) ==
    IF keywords = <<>> THEN kw_lower
    ELSE LET kk == Lower(Head(keywords))
         IN  IF Head(keywords) = <<>> \/ \E i \in 1..Len(kw_lower) : kw_lower[i] = kk
             THEN PrepareKeywords(Tail(keywords), kw_lower)
             ELSE PrepareKeywords(Tail(keywords), Append(kw_lower, kk))

\* d.get(k, "") for a text field
GetText(d, k) == IF Has(d, k) THEN d[k] ELSE <<>>

\* text_lower of a readable file (lines 254-261).
TextLower(body) ==
    LET data == IF Len(body) > 1 THEN body[2] ELSE body[1]
        title == GetText(data, "title")
        summary == IF GetText(data, "summary") # <<>> THEN GetText(data, "summary")
                   ELSE GetText(data, "description")
        argos_summary == GetText(data, "argos_summary")
    IN  Lower(Strip(title \o <<" ">> \o summary \o <<" ">> \o argos_summary))

\* The files in the order search_by_keywords meets them: directories by name
\* descending, within a directory the files by name descending.
RECURSIVE ScanOrder(_, _)
ScanOrder(files, dirs) ==
    IF dirs = <<>> THEN <<>>
    ELSE ByNameDescending(InDir(files, Head(dirs))) \o ScanOrder(files, Tail(dirs))

\* The exclusion test left out.
IsExcluded_never(article_id, exclude_ids) == FALSE

\* `if article_id in exclude_ids: continue` (lines 246-247)
IsExcluded(article_id, exclude_ids) == article_id \in exclude_ids

\* search_by_keywords' loop (lines 238-284) over the files still to scan.
RECURSIVE SearchScan(_, _, _, _, _, _)
SearchScan(order, compiled, limit, min_hits, exclude_ids, matches) ==
    IF order = <<>> THEN matches
    ELSE LET f == Head(order)
             rest == Tail(order)
         IN  IF IsExcluded(f.id, exclude_ids) \/ f.body = Corrupt
             THEN SearchScan(rest, compiled, limit, min_hits, exclude_ids, matches)
             ELSE LET text_lower == TextLower(f.body)
                      matched_keywords ==
                          SelectSeq(compiled,
                                    LAMBDA k : PatternSearch(build_keyword_pattern(k),
                                                             text_lower))
                      found == Append(matches,
                                      [article_id |-> f.id,
                                       matched_keywords |-> matched_keywords,
                                       hit_count |-> Len(matched_keywords),
                                       article |-> f.body])
                 IN  IF Len(matched_keywords) >= min_hits
                     THEN IF Len(found) >= limit THEN found
                          ELSE SearchScan(rest, compiled, limit, min_hits,
                                          exclude_ids, found)
                     ELSE SearchScan(rest, compiled, limit, min_hits,
                                     exclude_ids, matches)

search_by_keywords(files, keywords, limit, min_hits, exclude_ids) ==
    SearchScan(ScanOrder(files, DirsDescending(DateDirs(files))),
               PrepareKeywords(keywords, <<>>), limit, min_hits, exclude_ids, <<>>)

-----------------------------------------------------------------------------

(* The state after ArticleStorageManager.__init__ *)

\* The stores the manager is constructed over.
InitDisks ==
    {{},
     {[dir |-> D1, id |-> "A", mtime |-> 1,
       body |-> <<[argos_id |-> "A", url |-> "u", pubDate |-> D1]>>]},
     {[dir |-> D1, id |-> "B", mtime |-> 1, body |-> Corrupt]}}

\* A completed call: op its name; art or key its argument (an article, or an id or
\* url); val the id or url-lookup result it returned, body the article it returned,
\* found the boolean it returned; articles the list list_articles returned and
\* matches the list search_by_keywords returned; kw and text the keyword and the
\* text of a pattern search; keywords, limit, min_hits, exclude_ids and date the
\* arguments of a list or a search; batch and overwrite the arguments of a bulk
\* import and imported, skipped, errors its counts; status "ok" or how it ended
\* otherwise.
NoCall == [op |-> "none", art |-> <<>>, key |-> None, val |-> None, body |-> <<>>,
           found |-> FALSE, status |-> "none", articles |-> <<>>, matches |-> <<>>,
           kw |-> <<>>, text |-> <<>>, keywords |-> <<>>, limit |-> 0, min_hits |-> 0,
           exclude_ids |-> {}, date |-> <<>>, batch |-> <<>>, overwrite |-> FALSE,
           imported |-> 0, skipped |-> 0, errors |-> 0]

Init ==
    /\ disk \in InitDisks
    /\ today_str = Today
    /\ article_ids = LoadExistingIds(disk)
    /\ \E order \in ScanOrders(disk) : url_to_id = BuildUrlCache(order, EmptyDict)
    /\ pc = "idle"
    /\ new_id = None
    /\ pending = NoPending
    /\ ret = NoCall
    /\ first_url = EmptyDict
    /\ gen_since = {}

-----------------------------------------------------------------------------
(* The operations, one call at a time *)

\* What a store_article call leaves in the history variables.
LogStore(article_data, r) ==
    LET url == Get(unwrap_article(article_data)[1], "url")
    IN  IF r.status = "stored" /\ Truthy(url) /\ ~Has(first_url, url)
        THEN SetKey(first_url, url, r.val)
        ELSE first_url

StoreArticle(article_data) ==
    /\ pc = "idle"
    /\ LET r == store_article(article_data, disk, article_ids, url_to_id, today_str)
       IN  /\ disk' = r.disk
           /\ article_ids' = r.ids
           /\ url_to_id' = r.cache
           /\ ret' = [NoCall EXCEPT !.op = "store_article", !.art = article_data,
                                     !.val = r.val, !.status = r.status]
           /\ first_url' = LogStore(article_data, r)
    /\ gen_since' = {}
    /\ UNCHANGED <<today_str, pc, new_id, pending>>

FindArticleByUrl(url) ==
    /\ pc = "idle"
    /\ ret' = [NoCall EXCEPT !.op = "find_article_by_url", !.key = url,
                              !.val = find_article_by_url(url_to_id, url),
                              !.status = "ok"]
    /\ UNCHANGED <<disk, today_str, article_ids, url_to_id, pc, new_id, pending,
                   first_url, gen_since>>

GetArticle(article_id) ==
    /\ pc = "idle"
    /\ \E g \in get_article(disk, article_id) :
           ret' = [NoCall EXCEPT !.op = "get_article", !.key = article_id,
                                 !.body = g.body, !.found = g.found,
                                 !.status = g.status]
    /\ UNCHANGED <<disk, today_str, article_ids, url_to_id, pc, new_id, pending,
                   first_url, gen_since>>

\* article_exists answering from article_ids alone (no scan of the date directories).
article_exists_cache_only(ids, files, article_id) ==
    [ids |-> ids, val |-> article_id \in ids]

\* article_exists: the cache first, then {id}.json in the date directories; a hit
\* of the scan is added to the cache.
article_exists(ids, files, article_id) ==
    IF article_id \in ids THEN [ids |-> ids, val |-> TRUE]
    ELSE IF \E f \in files : f.id = article_id /\ f.dir # <<>>
    THEN [ids |-> ids \cup {article_id}, val |-> TRUE]
    ELSE [ids |-> ids, val |-> FALSE]

ArticleExists(article_id) ==
    /\ pc = "idle"
    /\ LET r == article_exists(article_ids, disk, article_id)
       IN  /\ article_ids' = r.ids
           /\ ret' = [NoCall EXCEPT !.op = "article_exists", !.key = article_id,
                                     !.found = r.val, !.status = "ok"]
    /\ UNCHANGED <<disk, today_str, url_to_id, pc, new_id, pending, first_url,
                   gen_since>>

\* generate_article_id returning its first candidate unchecked.
IsUnique_unchecked(cand, ids) == TRUE

\* generate_article_id's test of a candidate: `if new_id not in self.article_ids`.
IsUnique(cand, ids) == cand \notin ids

\* generate_article_id is entered; its loop runs in GenRetry and GenReturn.
GenerateCall ==
    /\ pc = "idle"
    /\ pc' = "gen"
    /\ new_id' = None
    /\ pending' = NoPending
    /\ UNCHANGED <<disk, today_str, article_ids, url_to_id, ret, first_url, gen_since>>

\* One iteration that draws a candidate (random.choices) failing the test: loop again.
GenRetry ==
    /\ pc = "gen"
    /\ \E cand \in Ids :
           /\ ~IsUnique(cand, article_ids)
           /\ new_id' = cand
    /\ UNCHANGED <<disk, today_str, article_ids, url_to_id, pc, pending, ret,
                   first_url, gen_since>>

\* Step 3 of ingest_article once the id is chosen: set it on the article, store.
IngestStore(article_data, argos_id) ==
    LET stamped == [article_data EXCEPT ![1] = SetKey(@, "argos_id", argos_id)]
        r == store_article(stamped, disk, article_ids, url_to_id, today_str)
    IN  /\ disk' = r.disk
        /\ article_ids' = r.ids
        /\ url_to_id' = r.cache
        /\ ret' = [NoCall EXCEPT
                       !.op = "ingest_article", !.art = article_data,
                       !.val = IF r.status = "ValueError" THEN None ELSE argos_id,
                       !.status = IF r.status = "ValueError" THEN "500" ELSE "created"]
        /\ first_url' = LogStore(stamped, r)
        /\ gen_since' = {}

\* One iteration that draws a candidate passing the test: generate_article_id
\* returns it, to its caller or into the ingest call that is waiting for it.
GenReturn ==
    /\ pc = "gen"
    /\ \E cand \in Ids :
           /\ IsUnique(cand, article_ids)
           /\ IF pending = NoPending
              THEN /\ ret' = [NoCall EXCEPT !.op = "generate_article_id",
                                             !.val = cand, !.status = "ok"]
                   /\ gen_since' = gen_since \cup {cand}
                   /\ UNCHANGED <<disk, article_ids, url_to_id, first_url>>
              ELSE IngestStore(pending, cand)
    /\ pc' = "idle"
    /\ new_id' = None
    /\ pending' = NoPending
    /\ UNCHANGED today_str

\* ingest_article: by id, then by url, then store under the provided or a generated id.
IngestArticle(article_data) ==
    /\ pc = "idle"
    /\ LET provided_id == Get(article_data[1], "argos_id")
           url == Get(article_data[1], "url")
           answer(val, status) ==
               /\ ret' = [NoCall EXCEPT !.op = "ingest_article", !.art = article_data,
                                         !.val = val, !.status = status]
               /\ UNCHANGED <<disk, article_ids, url_to_id, pc, new_id, pending,
                              first_url, gen_since>>
           not_asked == {[status |-> "ok", body |-> <<>>, found |-> FALSE]}
       IN  IF ~Truthy(url) THEN answer(None, "400")
           ELSE \E g1 \in (IF Truthy(provided_id) THEN get_article(disk, provided_id)
                           ELSE not_asked) :
               IF g1.status # "ok" THEN answer(None, "500")
               ELSE IF TruthyArticle(g1) THEN answer(provided_id, "existing")
               ELSE LET by_url == find_article_by_url(url_to_id, url)
                    IN  IF Truthy(by_url)
                        THEN \E g2 \in get_article(disk, by_url) :
                                 IF g2.status # "ok" THEN answer(None, "500")
                                 ELSE answer(by_url, "existing")
                        ELSE IF Truthy(provided_id)
                        THEN /\ IngestStore(article_data, provided_id)
                             /\ UNCHANGED <<pc, new_id, pending>>
                        ELSE /\ pc' = "gen"
                             /\ new_id' = None
                             /\ pending' = article_data
                             /\ UNCHANGED <<disk, article_ids, url_to_id, ret,
                                            first_url, gen_since>>
    /\ UNCHANGED today_str

Next ==
    \/ \E a \in Articles : StoreArticle(a)
    \/ \E u \in Urls : FindArticleByUrl(u)
    \/ \E i \in Ids : GetArticle(i)
    \/ \E i \in Ids : ArticleExists(i)
    \/ GenerateCall
    \/ GenRetry
    \/ GenReturn
    \/ \E a \in Articles : IngestArticle(a)

Spec == Init /\ [][Next]_vars

\* Another manager instance on the same root stores an article: of this
\* instance's state only the files change.
ExternalArticles == {<<[argos_id |-> "B", url |-> "u", pubDate |-> D1, title |-> <<"t">>]>>}

\* The two instances sharing one url_to_id: the other instance's store is indexed
\* here as well.
OtherInstanceStore_shared_index(article_data) ==
    /\ disk' = WriteFile(disk, TargetDir(unwrap_article(article_data)[1], today_str),
                         Get(unwrap_article(article_data)[1], "argos_id"),
                         unwrap_article(article_data))
    /\ url_to_id' = SetKey(url_to_id, Get(unwrap_article(article_data)[1], "url"),
                           Get(unwrap_article(article_data)[1], "argos_id"))
    /\ UNCHANGED <<today_str, article_ids, pc, new_id, pending, ret,
                   first_url, gen_since>>

OtherInstanceStore(article_data) ==
    /\ disk' = WriteFile(disk, TargetDir(unwrap_article(article_data)[1], today_str),
                         Get(unwrap_article(article_data)[1], "argos_id"),
                         unwrap_article(article_data))
    /\ UNCHANGED <<today_str, article_ids, url_to_id, pc, new_id, pending, ret,
                   first_url, gen_since>>

NextShared ==
    \/ Next
    \/ \E a \in ExternalArticles : OtherInstanceStore(a)

\* One instance, with another instance writing to the same root.
SpecShared == Init /\ [][NextShared]_vars

-----------------------------------------------------------------------------
(* The keyword matcher on its own: one keyword against one text *)

\* The longest keyword and the longest text drawn.
MaxKwLen == 3
MaxTextLen == 3
\* The characters keywords and texts are drawn from: a lower-case and an upper-case
\* letter, a hyphen and a blank.
MatchChars == {"a", "B", "-", " "}
StringsUpTo(n) == UNION {[1..k -> MatchChars] : k \in 0..n}

RealTime == <<"r", "e", "a", "l", "-", "t", "i", "m", "e">>
\* The pairs of keyword and text that the description of the matcher names.
ExamplePairs ==
    {<<RealTime, <<"r", "e", "a", "l", " ", "t", "i", "m", "e">>>>,
     <<RealTime, <<"r", "e", "a", "l", "t", "i", "m", "e">>>>,
     <<RealTime, <<"r", "e", "a", "l", "/", "t", "i", "m", "e">>>>,
     <<RealTime, RealTime>>,
     <<<<"r", "e">>, <<"r", "a", "t", "e">>>>}

\* The call of one pattern search with keyword kw on text.
SearchCall(kw, text) ==
    [NoCall EXCEPT !.op = "pattern_search", !.kw = kw, !.text = text,
                   !.status = "called"]

\* Before the search of one keyword's pattern in one article's text.
InitMatch ==
    /\ disk = {}
    /\ today_str = Today
    /\ article_ids = {}
    /\ url_to_id = EmptyDict
    /\ pc = "match"
    /\ new_id = None
    /\ pending = NoPending
    /\ \/ \E kw \in StringsUpTo(MaxKwLen) \ {<<>>}, text \in StringsUpTo(MaxTextLen) :
              ret = SearchCall(kw, text)
       \/ \E in \in ExamplePairs : ret = SearchCall(in[1], in[2])
    /\ first_url = EmptyDict
    /\ gen_since = {}

\* search_by_keywords' test of one keyword on one text (lines 230, 261, 264):
\* the pattern of the keyword searched in the lowercased text.
KeywordSearch ==
    /\ pc = "match"
    /\ pc' = "idle"
    /\ ret' = [ret EXCEPT !.found = PatternSearch(build_keyword_pattern(ret.kw),
                                                  Lower(ret.text)),
                          !.status = "ok"]
    /\ UNCHANGED <<disk, today_str, article_ids, url_to_id, new_id, pending,
                   first_url, gen_since>>

SpecMatch == InitMatch /\ [][KeywordSearch]_vars

-----------------------------------------------------------------------------
(* Listing and searching a store that holds readable and unreadable files *)

TxtAIRegulation == <<"A", "I", " ", "r", "e", "g", "u", "l", "a", "t", "i", "o", "n">>
TxtRealTimeAI == <<"r", "e", "a", "l", "-", "t", "i", "m", "e", " ", "A", "I">>
TxtContains == <<"c", "o", "n", "t", "a", "i", "n", "s">>
TxtSaid == <<"s", "a", "i", "d">>
TxtAIDots == <<"A", ".", "I", ".">>
TxtFedRate == <<"F", "e", "d", " ", "r", "a", "t", "e">>
KwAi == <<"a", "i">>
KwAI == <<"A", "I">>
KwFed == <<"f", "e", "d">>
KwRate == <<"r", "a", "t", "e">>
KwInflation == <<"i", "n", "f", "l", "a", "t", "i", "o", "n">>

\* What each of three files can hold: invalid JSON, or an article as store_article
\* writes it (the third file: an article whose "data" dict store_article does not
\* unwrap, and a flat one).
ContentsA ==
    {Corrupt,
     <<[argos_id |-> "A", url |-> "v", title |-> TxtSaid]>>,
     <<[argos_id |-> "A", url |-> "v", title |-> TxtRealTimeAI]>>}
ContentsB ==
    {Corrupt,
     <<[argos_id |-> "B", title |-> TxtContains]>>,
     <<[argos_id |-> "B", url |-> "u", title |-> TxtAIRegulation, summary |-> TxtFedRate]>>}
ContentsC ==
    {Corrupt,
     <<[argos_id |-> "C", pubDate |-> D1], [title |-> TxtAIDots]>>,
     <<[argos_id |-> "C", url |-> "u", pubDate |-> D1, title |-> KwFed, description |-> KwAI]>>}

\* The files of a sequence, the first the oldest.
Stamp(fs) == {[fs[i] EXCEPT !.mtime = i] : i \in 1..Len(fs)}
Reverse(fs) == [i \in 1..Len(fs) |-> fs[Len(fs) + 1 - i]]

\* The stores searched: empty, or holding A.json alone, or under today's directory
\* A.json and B.json and under an older day's C.json, written in one order or the
\* other.
SearchDisks ==
    {{}} \cup {Stamp(<<[dir |-> D2, id |-> "A", body |-> a, mtime |-> 0]>>) : a \in ContentsA}
         \cup UNION {LET fs == <<[dir |-> D1, id |-> "C", body |-> c, mtime |-> 0],
                                 [dir |-> D2, id |-> "A", body |-> a, mtime |-> 0],
                                 [dir |-> D2, id |-> "B", body |-> b, mtime |-> 0]>>
                     IN  {Stamp(fs), Stamp(Reverse(fs))}
                     : a \in ContentsA, b \in ContentsB, c \in ContentsC}

KeywordLists ==
    {<<KwAi>>, <<KwAI, KwAi, KwFed>>, <<<<>>, KwFed, KwRate, KwInflation>>}
\* The largest limit and the largest min_hits of a call.
MaxLimit == 2
MaxMinHits == 2
ExcludeSets == {{}, {"B"}, {"A", "C"}}
\* The date arguments of list_articles: none, a day of the store, and another day.
D3 == <<"2", "0", "2", "3", "-", "0", "1", "-", "0", "1">>
ListDates == {<<>>, D2, D3}

\* The manager constructed over one of the stores.
InitSearch ==
    /\ disk \in SearchDisks
    /\ today_str = Today
    /\ article_ids = LoadExistingIds(disk)
    /\ \E order \in ScanOrders(disk) : url_to_id = BuildUrlCache(order, EmptyDict)
    /\ pc = "idle"
    /\ new_id = None
    /\ pending = NoPending
    /\ ret = NoCall
    /\ first_url = EmptyDict
    /\ gen_since = {}

ListArticles(limit, date) ==
    /\ pc = "idle"
    /\ ret' = [NoCall EXCEPT !.op = "list_articles", !.limit = limit, !.date = date,
                              !.articles = list_articles(disk, limit, date),
                              !.status = "ok"]
    /\ UNCHANGED <<disk, today_str, article_ids, url_to_id, pc, new_id, pending,
                   first_url, gen_since>>

SearchByKeywords(keywords, limit, min_hits, exclude_ids) ==
    /\ pc = "idle"
    /\ ret' = [NoCall EXCEPT !.op = "search_by_keywords", !.keywords = keywords,
                              !.limit = limit, !.min_hits = min_hits,
                              !.exclude_ids = exclude_ids,
                              !.matches = search_by_keywords(disk, keywords, limit,
                                                             min_hits, exclude_ids),
                              !.status = "ok"]
    /\ UNCHANGED <<disk, today_str, article_ids, url_to_id, pc, new_id, pending,
                   first_url, gen_since>>

NextSearch ==
    \/ \E limit \in 0..MaxLimit, date \in ListDates : ListArticles(limit, date)
    \/ \E keywords \in KeywordLists, limit \in 1..MaxLimit, min_hits \in 1..MaxMinHits,
          exclude_ids \in ExcludeSets :
           SearchByKeywords(keywords, limit, min_hits, exclude_ids)

SpecSearch == InitSearch /\ [][NextSearch]_vars

-----------------------------------------------------------------------------
(* POST /api/articles/bulk *)

\* bulk_import_articles' loop (articles.py, lines 268-289) over the articles still
\* to import; st is the manager's state, the history of first urls and the counts.
RECURSIVE bulk_import_articles(_, _, _, _)
bulk_import_articles(articles, overwrite, st, today) ==
    IF articles = <<>> THEN st
    ELSE LET article == Head(articles)
             argos_id == Get(article[1], "argos_id")
             r == store_article(article, st.disk, st.ids, st.cache, today)
             url == Get(unwrap_article(article)[1], "url")
         IN  IF ~Truthy(argos_id)
             THEN bulk_import_articles(Tail(articles), overwrite,
                                       [st EXCEPT !.errors = @ + 1], today)
             ELSE IF argos_id \in st.ids /\ ~overwrite
             THEN bulk_import_articles(Tail(articles), overwrite,
                                       [st EXCEPT !.skipped = @ + 1], today)
             ELSE IF r.status = "ValueError"
             THEN bulk_import_articles(Tail(articles), overwrite,
                                       [st EXCEPT !.errors = @ + 1], today)
             ELSE bulk_import_articles(
                      Tail(articles), overwrite,
                      [st EXCEPT !.disk = r.disk, !.ids = r.ids, !.cache = r.cache,
                                 !.imported = @ + 1,
                                 !.first = IF r.status = "stored" /\ Truthy(url)
                                              /\ ~Has(st.first, url)
                                           THEN SetKey(st.first, url, r.val)
                                           ELSE st.first],
                      today)

BulkImportArticles(articles, overwrite) ==
    /\ pc = "idle"
    /\ LET st == bulk_import_articles(
                     articles, overwrite,
                     [disk |-> disk, ids |-> article_ids, cache |-> url_to_id,
                      first |-> first_url, imported |-> 0, skipped |-> 0, errors |-> 0],
                     today_str)
       IN  /\ disk' = st.disk
           /\ article_ids' = st.ids
           /\ url_to_id' = st.cache
           /\ first_url' = st.first
           /\ ret' = [NoCall EXCEPT !.op = "bulk_import_articles", !.batch = articles,
                                     !.overwrite = overwrite,
                                     !.imported = st.imported, !.skipped = st.skipped,
                                     !.errors = st.errors, !.status = "ok"]
    /\ gen_since' = {}
    /\ UNCHANGED <<today_str, pc, new_id, pending>>

\* The articles of a backup: two versions of "A", one "B", one without id, and one
\* whose "data" dict carries another id than its top level.
BulkArticles ==
    {<<[argos_id |-> "A", url |-> "u", pubDate |-> D1]>>,
     <<[argos_id |-> "A", url |-> "v", pubDate |-> D1]>>,
     <<[argos_id |-> "B", url |-> "u"]>>,
     <<[url |-> "u"]>>,
     <<[argos_id |-> "A"], [argos_id |-> "B", url |-> "v"]>>}
\* The longest batch imported.
MaxBatch == 2
Batches == UNION {[1..n -> BulkArticles] : n \in 1..MaxBatch}

NextBulk ==
    \/ \E articles \in Batches, overwrite \in BOOLEAN :
           BulkImportArticles(articles, overwrite)
    \/ \E a \in BulkArticles : StoreArticle(a)
    \/ \E id \in Ids : GetArticle(id)

SpecBulk == Init /\ [][NextBulk]_vars

-----------------------------------------------------------------------------
(* POST /api/articles *)

\* The "data" dicts of the requests.
CreateData ==
    {[url |-> "u"], [url |-> "v", pubDate |-> D1], [argos_id |-> "B", url |-> "v"],
     [title |-> <<"t">>]}

\* create_article (articles.py, lines 42-52): article.dict() is stored; a
\* ValueError of store_article is answered with status 400.
CreateArticle(argos_id, data) ==
    /\ pc = "idle"
    /\ LET article_data == <<[argos_id |-> argos_id, query_id |-> None,
                              timestamp |-> None], data>>
           r == store_article(article_data, disk, article_ids, url_to_id, today_str)
       IN  /\ disk' = r.disk
           /\ article_ids' = r.ids
           /\ url_to_id' = r.cache
           /\ ret' = [NoCall EXCEPT !.op = "create_article", !.art = article_data,
                                     !.val = r.val,
                                     !.status = IF r.status = "ValueError" THEN "400"
                                                ELSE "200"]
           /\ first_url' = LogStore(article_data, r)
    /\ gen_since' = {}
    /\ UNCHANGED <<today_str, pc, new_id, pending>>

NextCreate ==
    \/ \E i \in Ids, data \in CreateData : CreateArticle(i, data)
    \/ \E i \in Ids : GetArticle(i)
    \/ \E u \in Urls : FindArticleByUrl(u)

SpecCreate == Init /\ [][NextCreate]_vars

-----------------------------------------------------------------------------
(* Every method of one instance: the calls of Spec without ingest, with        *)
(* list_articles and search_by_keywords                                         *)

\* The articles stored: the same id with other content, another date or a date
\* that is no date, a shared url, no id, a wrapper.
LifecycleArticles ==
    BulkArticles \cup {<<[argos_id |-> "A", url |-> "u", pubDate |-> D2]>>,
                       <<[argos_id |-> "B", title |-> <<"t">>, pubDate |-> DTue]>>,
                       <<[argos_id |-> "B", title |-> <<"t">>]>>}

NextLifecycle ==
    \/ \E a \in LifecycleArticles : StoreArticle(a)
    \/ \E u \in Urls : FindArticleByUrl(u)
    \/ \E i \in Ids : GetArticle(i)
    \/ \E i \in Ids : ArticleExists(i)
    \/ GenerateCall
    \/ GenRetry
    \/ GenReturn
    \/ \E date \in {<<>>, D1} : ListArticles(1, date)
    \/ \E exclude_ids \in {{}, {"B"}} : SearchByKeywords(<<<<"t">>>>, 1, 1, exclude_ids)

SpecLifecycle == Init /\ [][NextLifecycle]_vars

-----------------------------------------------------------------------------
(* Two instances on one root, seen from the second: every call of this         *)
(* instance, and the stores of the other one                                    *)

\* The articles this instance is given: without an id, with an id, with the url
\* the other instance stores or another one, and a wrapped one.
StaleArticles ==
    {<<[url |-> "u"]>>,
     <<[argos_id |-> "A", url |-> "u", pubDate |-> D1]>>,
     <<[argos_id |-> "B", url |-> "u"]>>,
     <<[argos_id |-> "A", url |-> "v"]>>,
     <<[url |-> "u"], [argos_id |-> "A", url |-> "v"]>>}

NextStale ==
    \/ \E a \in ExternalArticles : OtherInstanceStore(a)
    \/ \E a \in StaleArticles : StoreArticle(a)
    \/ \E a \in StaleArticles : IngestArticle(a)
    \/ \E u \in Urls : FindArticleByUrl(u)
    \/ \E i \in Ids : GetArticle(i)
    \/ \E i \in Ids : ArticleExists(i)
    \/ GenerateCall
    \/ GenRetry
    \/ GenReturn

SpecStale == Init /\ [][NextStale]_vars

-----------------------------------------------------------------------------
(* Two request threads on one instance.  The routes are plain `def` functions, *)
(* which the server runs on a thread pool; the manager takes no lock.  A call   *)
(* is split where another thread can run between two of its accesses to the    *)
(* shared state: the files, article_ids and url_to_id.  Per thread: pc is the   *)
(* position in the call, pending its article_data, new_id the argos_id that    *)
(* ingest_article holds (None in a plain store_article call), ret its result.   *)

Threads == {1, 2}

\* The articles of the concurrent calls: the same id with the same or another
\* partition and other content, of the same or another length; and no id.
RaceArticles ==
    {<<[argos_id |-> "A", url |-> "u"]>>,
     <<[argos_id |-> "A", url |-> "v"]>>,
     <<[argos_id |-> "A", url |-> "v", pubDate |-> D1]>>,
     <<[argos_id |-> "A", url |-> "u", pubDate |-> D2]>>,
     <<[url |-> "u"]>>,
     <<[url |-> "v"]>>}

\* The number of characters json.dump(article, f, indent=2) writes for a flat
\* dict of strings: "{\n", a line `  "key": "value",\n` per key (no comma on the
\* last one) and "}".
KeyLen == [argos_id |-> 8, url |-> 3, pubDate |-> 7, published_date |-> 14, title |-> 5]
ValLen(k, v) == IF k \in {"argos_id", "url"} THEN 1 ELSE Len(v)
RECURSIVE DictLen(_, _)
DictLen(d, keys) ==
    IF keys = {} THEN 0
    ELSE LET k == CHOOSE x \in keys : TRUE
         IN  KeyLen[k] + ValLen(k, d[k]) + 10 + DictLen(d, keys \ {k})
JsonLen(body) == 2 + DictLen(body[1], DOMAIN body[1])

\* The overlay with a text of the same length taken for a shorter one.
Overlay_strict(old, new) ==
    IF old = Corrupt \/ JsonLen(new) > JsonLen(old) THEN new ELSE Corrupt

\* close() of a file opened with "w" handing over the buffered text: it is
\* written from offset 0 of the file as it is by then.  The file is empty since
\* this thread's open(), or holds what another thread wrote after that open();
\* a longer text of the other thread keeps its tail, and the result is no JSON.
Overlay(old, new) ==
    IF old = Corrupt \/ JsonLen(new) >= JsonLen(old) THEN new ELSE Corrupt


InitRace ==
    /\ disk \in InitDisks
    /\ today_str = Today
    /\ article_ids = LoadExistingIds(disk)
    /\ \E order \in ScanOrders(disk) : url_to_id = BuildUrlCache(order, EmptyDict)
    /\ pc = [t \in Threads |-> "idle"]
    /\ new_id = [t \in Threads |-> None]
    /\ pending = [t \in Threads |-> NoPending]
    /\ ret = [t \in Threads |-> NoCall]
    /\ first_url = EmptyDict
    /\ gen_since = {}

\* Thread t's call returns: store_article its id or a ValueError, ingest_article
\* its answer (an exception of the store is its status 500).
Return(t, op, art, val, status) ==
    /\ pc' = [pc EXCEPT ![t] = "idle"]
    /\ pending' = [pending EXCEPT ![t] = NoPending]
    /\ new_id' = [new_id EXCEPT ![t] = None]
    /\ ret' = [ret EXCEPT ![t] = [NoCall EXCEPT !.op = op, !.art = art, !.val = val,
                                                !.status = status]]

Goto(t, label) ==
    /\ pc' = [pc EXCEPT ![t] = label]
    /\ UNCHANGED <<new_id, pending, ret>>

\* store_article up to its return at line 58 or its test passed (lines 50-56), for
\* the article thread t holds; from_ingest is the argos_id ingest_article returns.
StoreCheck(t, article_data, from_ingest) ==
    LET argos_id == Get(unwrap_article(article_data)[1], "argos_id")
    IN  /\ IF ~Truthy(argos_id)
           THEN IF from_ingest = None
                THEN Return(t, "store_article", article_data, None, "ValueError")
                ELSE Return(t, "ingest_article", article_data, None, "500")
           ELSE IF argos_id \in article_ids
           THEN IF from_ingest = None
                THEN Return(t, "store_article", article_data, argos_id, "skipped")
                ELSE Return(t, "ingest_article", article_data, from_ingest, "created")
           ELSE /\ pc' = [pc EXCEPT ![t] = "store_open"]
                /\ pending' = [pending EXCEPT ![t] = article_data]
                /\ new_id' = [new_id EXCEPT ![t] = from_ingest]
                /\ UNCHANGED ret
        /\ UNCHANGED <<disk, today_str, article_ids, url_to_id, first_url, gen_since>>

\* A thread enters store_article (create_article, bulk import or any caller).
CallStore(t, article_data) ==
    /\ pc[t] = "idle" /\ ret[t] = NoCall
    /\ StoreCheck(t, article_data, None)

\* Lines 61-76: the target directory is made and the file opened for writing,
\* which creates it or empties it.
StoreOpen(t) ==
    /\ pc[t] = "store_open"
    /\ LET a == unwrap_article(pending[t])
       IN  disk' = WriteFile(disk, TargetDir(a[1], today_str), a[1].argos_id, Corrupt)
    /\ Goto(t, "store_dump")
    /\ UNCHANGED <<today_str, article_ids, url_to_id, first_url, gen_since>>

\* Lines 76-77: json.dump into the buffer and the write of the buffer when the
\* `with` block closes the file.
StoreDump(t) ==
    /\ pc[t] = "store_dump"
    /\ LET a == unwrap_article(pending[t])
           dir == TargetDir(a[1], today_str)
           old == CHOOSE f \in disk : f.dir = dir /\ f.id = a[1].argos_id
       IN  disk' = WriteFile(disk, dir, a[1].argos_id, Overlay(old.body, a))
    /\ Goto(t, "store_ids")
    /\ UNCHANGED <<today_str, article_ids, url_to_id, first_url, gen_since>>

\* Line 80
StoreIds(t) ==
    /\ pc[t] = "store_ids"
    /\ article_ids' = article_ids \cup {unwrap_article(pending[t])[1].argos_id}
    /\ Goto(t, "store_url")
    /\ UNCHANGED <<disk, today_str, url_to_id, first_url, gen_since>>

\* Lines 81-87, and the return of ingest_article when it was the caller.
StoreUrl(t) ==
    /\ pc[t] = "store_url"
    /\ LET a == unwrap_article(pending[t])
           url == Get(a[1], "url")
       IN  /\ url_to_id' = IF Truthy(url) THEN SetKey(url_to_id, url, a[1].argos_id)
                           ELSE url_to_id
           /\ IF new_id[t] = None
              THEN Return(t, "store_article", pending[t], a[1].argos_id, "stored")
              ELSE Return(t, "ingest_article", pending[t], new_id[t], "created")
    /\ UNCHANGED <<disk, today_str, article_ids, first_url, gen_since>>

\* ingest_article up to step 1 (lines 172-189): the url test and the look-up of a
\* provided id on disk.
CallIngest(t, article_data) ==
    /\ pc[t] = "idle" /\ ret[t] = NoCall
    /\ LET provided_id == Get(article_data[1], "argos_id")
       IN  IF ~Truthy(Get(article_data[1], "url"))
           THEN Return(t, "ingest_article", article_data, None, "400")
           ELSE IF ~Truthy(provided_id)
           THEN /\ pc' = [pc EXCEPT ![t] = "ingest_by_url"]
                /\ pending' = [pending EXCEPT ![t] = article_data]
                /\ UNCHANGED <<new_id, ret>>
           ELSE \E g \in get_article(disk, provided_id) :
                    IF g.status # "ok"
                    THEN Return(t, "ingest_article", article_data, None, "500")
                    ELSE IF TruthyArticle(g)
                    THEN Return(t, "ingest_article", article_data, provided_id,
                                "existing")
                    ELSE /\ pc' = [pc EXCEPT ![t] = "ingest_by_url"]
                         /\ pending' = [pending EXCEPT ![t] = article_data]
                         /\ UNCHANGED <<new_id, ret>>
    /\ UNCHANGED <<disk, today_str, article_ids, url_to_id, first_url, gen_since>>

\* Step 2 (lines 192-194): the url index is asked.
IngestByUrl(t) ==
    /\ pc[t] = "ingest_by_url"
    /\ LET by_url == find_article_by_url(url_to_id, Get(pending[t][1], "url"))
       IN  IF Truthy(by_url)
           THEN /\ pc' = [pc EXCEPT ![t] = "ingest_url_match"]
                /\ new_id' = [new_id EXCEPT ![t] = by_url]
                /\ UNCHANGED <<pending, ret>>
           ELSE Goto(t, "ingest_new")
    /\ UNCHANGED <<disk, today_str, article_ids, url_to_id, first_url, gen_since>>

\* Lines 204-209: the article of the url match is read, and its id returned.
IngestUrlMatch(t) ==
    /\ pc[t] = "ingest_url_match"
    /\ \E g \in get_article(disk, new_id[t]) :
           IF g.status # "ok"
           THEN Return(t, "ingest_article", pending[t], None, "500")
           ELSE Return(t, "ingest_article", pending[t], new_id[t], "existing")
    /\ UNCHANGED <<disk, today_str, article_ids, url_to_id, first_url, gen_since>>

\* Step 3 (lines 212-216): the provided id, or one that generate_article_id draws
\* and finds not to be in article_ids, is set on the article, and store_article
\* is entered (up to its known-id test).
IngestNew(t) ==
    /\ pc[t] = "ingest_new"
    /\ LET provided_id == Get(pending[t][1], "argos_id")
       IN  \E argos_id \in (IF Truthy(provided_id) THEN {provided_id}
                            ELSE {cand \in Ids : IsUnique(cand, article_ids)}) :
               /\ pc' = [pc EXCEPT ![t] = "ingest_store"]
               /\ pending' = [pending EXCEPT
                                  ![t] = [@ EXCEPT ![1] = SetKey(@, "argos_id", argos_id)]]
               /\ new_id' = [new_id EXCEPT ![t] = argos_id]
               /\ UNCHANGED ret
    /\ UNCHANGED <<disk, today_str, article_ids, url_to_id, first_url, gen_since>>

IngestStoreCheck(t) ==
    /\ pc[t] = "ingest_store"
    /\ StoreCheck(t, pending[t], new_id[t])

NextRace ==
    \/ \E t \in Threads, a \in RaceArticles : CallStore(t, a)
    \/ \E t \in Threads, a \in RaceArticles : CallIngest(t, a)
    \/ \E t \in Threads : IngestByUrl(t)
    \/ \E t \in Threads : IngestUrlMatch(t)
    \/ \E t \in Threads : IngestNew(t)
    \/ \E t \in Threads : IngestStoreCheck(t)
    \/ \E t \in Threads : StoreOpen(t)
    \/ \E t \in Threads : StoreDump(t)
    \/ \E t \in Threads : StoreIds(t)
    \/ \E t \in Threads : StoreUrl(t)

SpecRace == InitRace /\ [][NextRace]_vars

\* The loop of generate_article_id keeps running, and a candidate that passes its
\* test is eventually drawn when there is one.
FairSpec == Spec /\ WF_vars(GenRetry) /\ WF_vars(GenReturn)

\* Only the ingest route (and the reads) is called.
NextIngest ==
    \/ \E a \in Articles : IngestArticle(a)
    \/ GenRetry
    \/ GenReturn
    \/ \E u \in Urls : FindArticleByUrl(u)
    \/ \E i \in Ids : GetArticle(i)

SpecIngest == Init /\ [][NextIngest]_vars

-----------------------------------------------------------------------------
(* Vocabulary of the properties *)

\* The dict store_article works on, and its id and url.
Unwrapped(article) == unwrap_article(article)[1]
ArgId(article) == Get(Unwrapped(article), "argos_id")
ArgUrl(article) == Get(Unwrapped(article), "url")

\* A step that is a completed store_article call (ret' describes it).
StoreStep == pc = "idle" /\ pc' = "idle" /\ ret'.op = "store_article" /\ ret' # ret
\* A step in which an ingest_article call returns (directly or after generating an id).
IngestStep == pc' = "idle" /\ ret'.op = "ingest_article" /\ ret' # ret

FilesOf(files, id) == {f \in files : f.id = id}
\* The url a readable file carries.
FileUrl(f) == IF f.body = Corrupt THEN None ELSE Get(f.body[1], "url")

-----------------------------------------------------------------------------
(* C1 - URL dedup, first wins: after stores of the same url under different
   argos_ids, every find_article_by_url(url) returns the argos_id of the first
   article stored with that url.  (The code's cache keeps the last one.) *)
C1_FirstStoredUrlWins ==
    (ret.op = "find_article_by_url" /\ Has(first_url, ret.key))
        => ret.val = first_url[ret.key]

(* C2 - Idempotent store: a store_article call whose unwrapped argos_id is already
   in article_ids returns that id and changes neither the files, article_ids nor
   url_to_id, whatever the other fields are; and after any store_article call
   that returns an id there is exactly one file for that id. *)
C2_IdempotentStore ==
    [][StoreStep =>
         /\ (Truthy(ArgId(ret'.art)) /\ ArgId(ret'.art) \in article_ids)
                => /\ ret'.val = ArgId(ret'.art)
                   /\ disk' = disk
                   /\ article_ids' = article_ids
                   /\ url_to_id' = url_to_id
         /\ ret'.val # None => Cardinality(FilesOf(disk', ret'.val)) = 1]_vars

\* A store of an already stored id whose article differs from the stored file.
C2_Witness ==
    /\ ret.op = "store_article" /\ ret.status = "skipped"
    /\ \E f \in disk : f.id = ret.val /\ f.body # unwrap_article(ret.art)
                       /\ FileUrl(f) # ArgUrl(ret.art)

(* C3 - Ingestion dedup: after any sequence of ingest_article calls no two files
   carry the same url, and an ingest whose url is already indexed returns an
   existing argos_id with status "existing" and creates no file.  (An ingest
   of a wrapped article files the inner dict, whose url was never checked.) *)
UrlUnique(files) ==
    \A f, g \in files : (Truthy(FileUrl(f)) /\ FileUrl(f) = FileUrl(g)) => f = g

C3_IngestDedup ==
    [][/\ UrlUnique(disk')
       /\ (IngestStep /\ Truthy(find_article_by_url(url_to_id, Get(ret'.art[1], "url"))))
              => /\ ret'.status = "existing"
                 /\ ret'.val \in article_ids
                 /\ disk' = disk]_vars

(* C4 - Global ID uniqueness: no argos_id has files in two date partitions, also
   after the same id is stored again with another publication date. *)
C4_OnePartitionPerId ==
    \A f, g \in disk : f.id = g.id => f.dir = g.dir

\* The same id was stored again with a publication date of another partition.
C4_Witness ==
    /\ ret.op = "store_article" /\ ret.status = "skipped"
    /\ \E f \in disk : f.id = ret.val
                       /\ f.dir # TargetDir(Unwrapped(ret.art), today_str)

(* C5 - generate_article_id never returns an id that is in article_ids, and an id
   never leaves article_ids: once loaded at startup, stored or backfilled by
   article_exists, it is not generated again. *)
C5_GenerateAvoidsKnown ==
    [][/\ (pc = "gen" /\ pc' = "idle") => ret'.val \notin article_ids
       /\ article_ids \subseteq article_ids']_vars

\* generate_article_id returned while an id backfilled by article_exists (its only
\* file is the other instance's) was known.
C5_Witness ==
    /\ ret.op = "generate_article_id" /\ ret.val = "A"
    /\ "B" \in article_ids
    /\ FilesOf(disk, "B") # {}
    /\ \A f \in FilesOf(disk, "B") : f.body \in ExternalArticles

(* C6 - generate_article_id called several times in sequence with no store in
   between returns pairwise distinct ids.  (It reserves nothing, so a later call
   can draw the same id again.) *)
C6_GenerateDistinct ==
    [][(pc = "gen" /\ pc' = "idle" /\ pending = NoPending)
          => ret'.val \notin gen_since]_vars

(* C7 - generate_article_id always terminates: every call that entered the loop
   leaves it, also when every id of the keyspace is in article_ids.  (The loop is
   `while True` with no attempt bound and no fallback.) *)
C7_GenerateTerminates == (pc = "gen") ~> (pc = "idle")

(* C8 - Unwrap round trip: storing an article nested in "data" wrappers that
   carry no url and no argos_id succeeds, writes the flat innermost dict as the
   file of its argos_id, and get_article returns that flat dict.  (unwrap_article
   stops at a wrapper whose "data" holds neither key, so two wrappers are one too
   many.) *)
C8_UnwrapRoundTrip ==
    LET a == ret.art
        inner == a[Len(a)]
        bare == \A k \in 1..(Len(a) - 1) : ~Has(a[k], "url") /\ ~Has(a[k], "argos_id")
    IN  (ret.op = "store_article" /\ Len(a) > 1 /\ bare
            /\ Truthy(Get(inner, "argos_id")) /\ Truthy(Get(inner, "url")))
        => /\ ret.status # "ValueError"
           /\ ret.val = inner.argos_id
           /\ ret.status = "stored"
                => /\ \E f \in disk : f.id = inner.argos_id /\ f.body = <<inner>>
                   /\ \A g \in get_article(disk, inner.argos_id) :
                          g.found /\ g.body = <<inner>>

(* C9 - Partition correctness: a new article whose pubDate (or, without pubDate,
   published_date) is YYYY-MM-DD, optionally followed by "T" and a time, is
   written to {YYYY-MM-DD}/{id}.json, and not to the today directory unless that
   is the same date.  The article is the one store_article works on after
   unwrapping. *)
Digits == {"0", "1", "2", "3", "4", "5", "6", "7", "8", "9"}
IsYMD(s) ==
    /\ Len(s) = 10
    /\ \A i \in {1, 2, 3, 4, 6, 7, 9, 10} : s[i] \in Digits
    /\ s[5] = "-" /\ s[8] = "-"
DateForm(s) ==
    /\ Len(s) >= 10
    /\ IsYMD(SubSeq(s, 1, 10))
    /\ Len(s) > 10 => s[11] = "T"
StatedDate(d) ==
    IF Has(d, "pubDate") THEN d.pubDate ELSE GetDate(d, "published_date")

-----------------------------------------------------------------------------
\* C11: a store_article call whose article has no argos_id after unwrapping (the
\* key is missing, or its value is empty) ends in an error and has no effect: the
\* disk, article_ids and url_to_id are what they were before the call.
C11_StoreWithoutIdRejected ==
    [][(StoreStep /\ ~Truthy(ArgId(ret'.art)))
        => /\ ret'.status = "ValueError"
           /\ disk' = disk
           /\ article_ids' = article_ids
           /\ url_to_id' = url_to_id]_vars

\* A store of an article whose argos_id is the empty string, with a url, was refused.
C11_Witness ==
    /\ ret.op = "store_article"
    /\ ret.status = "ValueError"
    /\ ArgId(ret.art) = ""
    /\ Truthy(ArgUrl(ret.art))

-----------------------------------------------------------------------------
\* A step that is a completed article_exists call.
ExistsStep == pc = "idle" /\ ret'.op = "article_exists" /\ ret' # ret
InDatePartition(files, id) == \E f \in files : f.id = id /\ f.dir # <<>>

\* C12: article_exists(id) answers true exactly when id is in article_ids or a file
\* {id}.json lies in a date directory (also one another instance wrote after this
\* one was constructed); an id found by the scan is in article_ids afterwards; the
\* call changes neither the disk nor url_to_id.
C12_ExistsCacheThenDisk ==
    [][ExistsStep
        => /\ ret'.found = (ret'.key \in article_ids \/ InDatePartition(disk, ret'.key))
           /\ (ret'.key \notin article_ids /\ InDatePartition(disk, ret'.key))
                  => ret'.key \in article_ids'
           /\ article_ids \subseteq article_ids'
           /\ disk' = disk
           /\ url_to_id' = url_to_id]_vars

\* article_exists answered true for an id whose only file was written by the other
\* instance, and the id is now cached.
C12_Witness ==
    /\ ret.op = "article_exists" /\ ret.found /\ ret.key = "B"
    /\ "B" \in article_ids
    /\ FilesOf(disk, "B") # {}
    /\ \A f \in FilesOf(disk, "B") : f.body \in ExternalArticles /\ f.dir # <<>>
    /\ ~Has(first_url, "u")

-----------------------------------------------------------------------------
\* C13: read-your-writes: right after store_article has written an article with a
\* new argos_id i and a url u, get_article(i) on the same instance returns the
\* stored (unwrapped) article and find_article_by_url(u) returns i.
C13_ReadYourWrites ==
    (ret.op = "store_article" /\ ret.status = "stored" /\ Truthy(ArgUrl(ret.art)))
        => /\ \A g \in get_article(disk, ret.val) :
                  g.status = "ok" /\ g.found /\ g.body = unwrap_article(ret.art)
           /\ find_article_by_url(url_to_id, ArgUrl(ret.art)) = ret.val

-----------------------------------------------------------------------------
\* C14: get_article never fails: it returns normally, with no article when no date
\* directory holds {id}.json, and also when the file of the id is not valid JSON.
C14_GetNeverFails ==
    ret.op = "get_article"
        => /\ ret.status = "ok"
           /\ ~InDatePartition(disk, ret.key) => ~ret.found

-----------------------------------------------------------------------------
(* The reference matcher of C18, stated on positions *)

\* The tokens of a keyword: the maximal runs of characters other than hyphen, slash
\* and whitespace, in order, case folded like the text.
RefTokens(kw) ==
    LET s == Lower(kw)
        IsTok(i) == s[i] \notin {"-", "/", " "}
        starts == {i \in 1..Len(s) : IsTok(i) /\ (i = 1 \/ ~IsTok(i - 1))}
        StartOf(k) == CHOOSE i \in starts : Cardinality({j \in starts : j < i}) = k - 1
        EndOf(i) == CHOOSE j \in i..Len(s) :
                        /\ \A m \in i..j : IsTok(m)
                        /\ j = Len(s) \/ ~IsTok(j + 1)
    IN  [k \in 1..Cardinality(starts) |-> SubSeq(s, StartOf(k), EndOf(StartOf(k)))]

RefLetterOrDigit(c) ==
    \/ \E i \in 1..26 : c \in {UpperChars[i], LowerChars[i]}
    \/ \E j \in 1..10 : c = DigitChars[j]

\* The tokens occur in text one after the other, each at most one separator after
\* the one before it, and the whole occurrence has no letter or digit right before
\* or right after it.  With no token the occurrence is empty.
RefMatches(toks, text) ==
    LET n == Len(toks)
        Free(i) == i < 1 \/ i > Len(text) \/ ~RefLetterOrDigit(text[i])
        End(at, k) == at[k] + Len(toks[k])
    IN  IF n = 0 THEN \E p \in 1..(Len(text) + 1) : Free(p - 1) /\ Free(p)
        ELSE \E at \in [1..n -> 1..(Len(text) + 1)] :
                /\ \A k \in 1..n :
                       /\ End(at, k) - 1 <= Len(text)
                       /\ SubSeq(text, at[k], End(at, k) - 1) = toks[k]
                /\ \A k \in 1..(n - 1) :
                       \/ at[k + 1] = End(at, k)
                       \/ at[k + 1] = End(at, k) + 1 /\ text[End(at, k)] \in {"-", "/", " "}
                /\ Free(at[1] - 1)
                /\ Free(End(at, n))

\* C18 as stated: for every keyword and every text, the keyword matches the
\* lowercased text exactly when the reference matcher finds the keyword's tokens in it.
C18_MatchesReference ==
    (ret.op = "pattern_search" /\ ret.status = "ok")
        => (ret.found <=> RefMatches(RefTokens(ret.kw), Lower(ret.text)))

\* C18, amended: the equivalence holds for every keyword that has at least one
\* token; a keyword made of separators only matches exactly when the keyword
\* itself (stripped and lowercased) occurs in the lowercased text with no letter or
\* digit right before or right after it.  "real-time" matches "real time",
\* "realtime", "real/time" and "real-time"; "re" does not match "rate".
C18_MatchesReferenceWithTokens ==
    (ret.op = "pattern_search" /\ ret.status = "ok")
        => /\ RefTokens(ret.kw) # <<>>
                  => (ret.found <=> RefMatches(RefTokens(ret.kw), Lower(ret.text)))
           /\ RefTokens(ret.kw) = <<>>
                  => (ret.found <=> RefMatches(<<Strip(Lower(ret.kw))>>, Lower(ret.text)))
           /\ (ret.kw = RealTime /\ <<ret.kw, ret.text>> \in ExamplePairs) => ret.found
           /\ ret.kw = <<"r", "e">> => ~ret.found

\* A keyword of two tokens was found in a text that joins them with a separator
\* the keyword does not have, and the example "real-time" in "real/time" was searched.
C18_Witness ==
    /\ ret.op = "pattern_search" /\ ret.status = "ok" /\ ret.found
    /\ \/ ret.kw = <<"a", "-", "B">> /\ ret.text = <<"a", " ", "B">>
       \/ ret.kw = RealTime /\ ret.text = <<"r", "e", "a", "l", "/", "t", "i", "m", "e">>

-----------------------------------------------------------------------------
Readable(files) == {f \in files : f.body # Corrupt}

\* C15: whatever number of files hold invalid JSON, construction, list_articles
\* and search_by_keywords end normally and give what they give on the store
\* without those files: url_to_id is a cache of the readable files, each of its
\* entries comes from a readable file, and the lists returned are the lists of
\* the readable files, with no entry for a corrupt file.
C15_CorruptFilesSkipped ==
    /\ url_to_id \in {BuildUrlCache(o, EmptyDict) : o \in ScanOrders(Readable(disk))}
    /\ \A u \in DOMAIN url_to_id :
           \E f \in Readable(disk) : f.id = url_to_id[u] /\ FileUrl(f) = u
    /\ ret.op = "list_articles"
           => /\ ret.status = "ok"
              /\ ret.articles = list_articles(Readable(disk), ret.limit, ret.date)
              /\ \A i \in 1..Len(ret.articles) : ret.articles[i] # Corrupt
    /\ ret.op = "search_by_keywords"
           => /\ ret.status = "ok"
              /\ ret.matches = search_by_keywords(Readable(disk), ret.keywords, ret.limit,
                                                  ret.min_hits, ret.exclude_ids)
              /\ \A i \in 1..Len(ret.matches) :
                     \E f \in Readable(disk) : /\ f.id = ret.matches[i].article_id
                                               /\ f.body = ret.matches[i].article

\* list_articles(1) returned the older, readable file of a directory whose most
\* recently modified file is corrupt, in a store with a second corrupt file.
C15_Witness ==
    /\ ret.op = "list_articles" /\ ret.limit = 1 /\ Len(ret.articles) = 1
    /\ \E f, g \in disk : /\ f.dir = D2 /\ f.body = Corrupt
                          /\ g.dir = D2 /\ g.body = ret.articles[1]
                          /\ g.mtime < f.mtime
    /\ \E h \in disk : h.dir = D1 /\ h.body = Corrupt

-----------------------------------------------------------------------------
\* The given keywords that match an article's text, as a set of lowercased keywords.
DistinctMatching(keywords, body) ==
    {Lower(keywords[j]) :
        j \in {l \in 1..Len(keywords) :
                  /\ keywords[l] # <<>>
                  /\ PatternSearch(build_keyword_pattern(keywords[l]), TextLower(body))}}
\* Where a lowercased keyword is first given.
FirstGiven(keywords, kk) ==
    CHOOSE j \in 1..Len(keywords) :
        Lower(keywords[j]) = kk /\ \A l \in 1..(j - 1) : Lower(keywords[l]) # kk

\* C16: every result of search_by_keywords has at least min_hits distinct keywords
\* (compared without case) matching its text; its hit_count is the length of
\* matched_keywords, and matched_keywords holds exactly the matching keywords,
\* lowercased, each once, in the order they were given.
C16_MinHitsThreshold ==
    ret.op = "search_by_keywords"
        => \A i \in 1..Len(ret.matches) :
               LET m == ret.matches[i]
                   mk == m.matched_keywords
                   distinct == DistinctMatching(ret.keywords, m.article)
               IN  /\ Cardinality(distinct) >= ret.min_hits
                   /\ m.hit_count = Len(mk)
                   /\ {mk[a] : a \in 1..Len(mk)} = distinct
                   /\ Len(mk) = Cardinality(distinct)
                   /\ \A a, b \in 1..Len(mk) :
                          a < b => FirstGiven(ret.keywords, mk[a])
                                       < FirstGiven(ret.keywords, mk[b])

\* With keywords "AI", "ai", "fed" and min_hits 2, the article matching "ai" and
\* "fed" is returned with these two, and the article of the store that matches
\* only "ai" (given twice) is not returned.
C16_Witness ==
    /\ ret.op = "search_by_keywords" /\ ret.keywords = <<KwAI, KwAi, KwFed>>
    /\ ret.min_hits = 2 /\ ret.exclude_ids = {} /\ ret.limit = 2
    /\ \E i \in 1..Len(ret.matches) :
           /\ ret.matches[i].matched_keywords = <<KwAi, KwFed>>
           /\ ret.matches[i].hit_count = 2
    /\ \E f \in disk : /\ f.body # Corrupt /\ f.id = "A"
                       /\ DistinctMatching(ret.keywords, f.body) = {KwAi}
                       /\ \A i \in 1..Len(ret.matches) : ret.matches[i].article_id # "A"

-----------------------------------------------------------------------------
\* C19: no result of search_by_keywords has an article_id of exclude_ids, also when
\* the article reaches min_hits; and excluded articles take no place of the limit:
\* the results are those of the same search on the store without the excluded files.
C19_ExcludeHonoured ==
    ret.op = "search_by_keywords"
        => /\ \A i \in 1..Len(ret.matches) : ret.matches[i].article_id \notin ret.exclude_ids
           /\ ret.matches = search_by_keywords({f \in disk : f.id \notin ret.exclude_ids},
                                               ret.keywords, ret.limit, ret.min_hits, {})

\* A search with limit 1 that excludes "B": B.json is scanned first and matches
\* the keyword, and the one result is the match scanned after it.
C19_Witness ==
    /\ ret.op = "search_by_keywords" /\ ret.limit = 1 /\ ret.min_hits = 1
    /\ ret.exclude_ids = {"B"} /\ ret.keywords = <<KwAi>>
    /\ \E f \in disk : /\ f.id = "B" /\ f.dir = D2 /\ f.body # Corrupt
                       /\ DistinctMatching(ret.keywords, f.body) = {KwAi}
    /\ Len(ret.matches) = 1
    /\ ret.matches[1].article_id = "A"

-----------------------------------------------------------------------------
\* text_lower of the file holds the (lowercased) words.
TextHas(f, words) ==
    \E i \in 1..Len(TextLower(f.body)) :
        /\ i + Len(words) - 1 <= Len(TextLower(f.body))
        /\ SubSeq(TextLower(f.body), i, i + Len(words) - 1) = Lower(words)
Returned(id) == \E i \in 1..Len(ret.matches) : ret.matches[i].article_id = id
\* A search for the one keyword "ai" with min_hits 1 and nothing excluded that was
\* not cut short by its limit.
SearchForAi ==
    /\ ret.op = "search_by_keywords" /\ ret.keywords = <<KwAi>> /\ ret.min_hits = 1
    /\ ret.exclude_ids = {} /\ Len(ret.matches) < ret.limit

\* C17 as stated: keyword "ai" with min_hits 1 does not return an article whose
\* only text is "contains" or "said", and returns the articles whose text holds
\* "AI regulation", "A.I." or "real-time AI".
C17_WordBoundary ==
    SearchForAi
        => \A f \in Readable(disk) :
               /\ TextLower(f.body) \in {TxtContains, TxtSaid} => ~Returned(f.id)
               /\ (\/ TextHas(f, TxtAIRegulation)
                   \/ TextHas(f, TxtAIDots)
                   \/ TextHas(f, TxtRealTimeAI)) => Returned(f.id)

\* C17, amended: keyword "ai" with min_hits 1 does not return an article whose only
\* text is "contains", "said" or the dotted variant "A.I.", and returns the articles
\* whose text holds "AI regulation" or "real-time AI".
C17_WordBoundaryNoDots ==
    SearchForAi
        => \A f \in Readable(disk) :
               /\ TextLower(f.body) \in {TxtContains, TxtSaid, Lower(TxtAIDots)}
                      => ~Returned(f.id)
               /\ (TextHas(f, TxtAIRegulation) \/ TextHas(f, TxtRealTimeAI))
                      => Returned(f.id)

\* A search for "ai" over the articles "said", "AI regulation ..." and "A.I." that
\* returned the second one alone.
C17_Witness ==
    /\ SearchForAi
    /\ \E a, b, c \in Readable(disk) :
           /\ a.id = "A" /\ TextLower(a.body) = TxtSaid
           /\ b.id = "B" /\ TextHas(b, TxtAIRegulation)
           /\ c.id = "C" /\ TextLower(c.body) = Lower(TxtAIDots)
    /\ Len(ret.matches) = 1 /\ Returned("B")

-----------------------------------------------------------------------------
\* A step that is a completed bulk import.
BulkStep == pc = "idle" /\ ret'.op = "bulk_import_articles" /\ ret' # ret
\* The articles of the batch that carry the id, given once and without wrapper.
GivenOnce(batch, id) ==
    /\ Cardinality({i \in 1..Len(batch) : Get(batch[i][1], "argos_id") = id}) = 1
    /\ \A i \in 1..Len(batch) : Get(batch[i][1], "argos_id") = id => Len(batch[i]) = 1

\* C20: in a bulk import, an article whose argos_id is already in the store has
\* its file replaced by the new content when overwrite is true, and is skipped,
\* the file left as it was, when overwrite is false.
C20_BulkOverwrite ==
    [][BulkStep
        => \A i \in 1..Len(ret'.batch) :
               LET a == ret'.batch[i]
                   id == Get(a[1], "argos_id")
               IN  (Truthy(id) /\ id \in article_ids /\ GivenOnce(ret'.batch, id))
                       => IF ret'.overwrite
                          THEN \A f \in FilesOf(disk', id) : f.body = a
                          ELSE /\ FilesOf(disk', id) = FilesOf(disk, id)
                               /\ ret'.skipped >= 1]_vars

-----------------------------------------------------------------------------
\* C27: a new article whose publication date is absent, empty or not a date is
\* written under today_str, the day fixed at construction; and no file lies in a
\* directory whose name is not a YYYY-MM-DD date.
C27_FallbackToToday ==
    /\ (/\ ret.op = "store_article" /\ ret.status = "stored"
        /\ ~DateForm(PubDate(Unwrapped(ret.art))))
           => \E f \in disk : /\ f.id = ret.val /\ f.dir = today_str
                              /\ f.body = unwrap_article(ret.art)
    /\ \A f \in disk : IsYMD(f.dir)

-----------------------------------------------------------------------------
\* C30: when the article given to store_article (directly, or by POST
\* /api/articles) has an argos_id at its top level, the call succeeds, returns
\* that id, and a file named after it is in a date directory: the descent into a
\* "data" dict neither drops nor replaces the id.
C30_TopLevelIdKept ==
    (/\ ret.op \in {"create_article", "store_article"}
     /\ Truthy(Get(ret.art[1], "argos_id")))
        => /\ ret.status \in {"200", "stored", "skipped"}
           /\ ret.val = ret.art[1].argos_id
           /\ InDatePartition(disk, ret.art[1].argos_id)


-----------------------------------------------------------------------------
(* C26: the indexes of a single instance agree with the disk *)

\* C26: in every state of a single instance with no other writer, article_ids is
\* exactly the set of ids that have a file below data_dir, and every url_to_id
\* entry u -> i names an id with a file whose stored url is u.
C26_IndexesMatchDisk ==
    /\ article_ids = {f.id : f \in disk}
    /\ \A u \in DOMAIN url_to_id :
           \E f \in disk : /\ f.id = url_to_id[u]
                           /\ f.body # Corrupt
                           /\ Get(f.body[1], "url") = u

\* A store has just written a second article with the url u, and the url index
\* names B's file.
C26_Witness ==
    /\ ret.op = "store_article" /\ ret.status = "stored"
    /\ Cardinality({f \in disk : f.body # Corrupt /\ Get(f.body[1], "url") = "u"}) = 2
    /\ Has(url_to_id, "u") /\ url_to_id["u"] = "B"


-----------------------------------------------------------------------------
(* C25: the indexes against a fresh construction over the same root *)

\* C25: in every state reached by the calls of a single instance, a manager
\* constructed afresh over the same data_dir has article_ids and url_to_id equal
\* to the live ones, whichever way its scan meets the files; for a url that
\* several stored articles share this includes the id the url maps to.
C25_RebuildableCache ==
    /\ LoadExistingIds(disk) = article_ids
    /\ \A order \in ScanOrders(disk) : BuildUrlCache(order, EmptyDict) = url_to_id


-----------------------------------------------------------------------------
(* C24: files are written once *)

\* C24: no call of store, get, exists, list, search, find_by_url or generate_id on
\* a single instance changes the content of a file that is on disk or removes it,
\* and no call removes an id from article_ids: files and article_ids only grow.
C24_WriteOnce ==
    [][/\ \A f \in disk : \E g \in disk' : /\ g.dir = f.dir /\ g.id = f.id
                                           /\ g.body = f.body
       /\ article_ids \subseteq article_ids']_vars

\* A store of other content under an id that has a file has returned, and the
\* file holds what it held.
C24_Witness ==
    /\ ret.op = "store_article" /\ ret.status = "skipped"
    /\ \E f \in disk : /\ f.id = ret.val
                       /\ f.body # unwrap_article(ret.art)
    /\ Cardinality(disk) = 2


-----------------------------------------------------------------------------
(* C28: what list_articles returns *)

\* The readable files list_articles can return for a date argument, and the ones
\* among them that the last call returned.
Listable(date) ==
    {f \in Readable(disk) : f.dir # <<>> /\ (date = <<>> \/ f.dir = date)}
Listed == {f \in Listable(ret.date) :
               \E i \in 1..Len(ret.articles) : ret.articles[i] = f.body}
Min(a, b) == IF a < b THEN a ELSE b

\* With a date argument every returned article is a file of that partition, and a
\* partition that does not exist gives the empty list.
ListOfPartition ==
    ret.date # <<>>
        => /\ \A i \in 1..Len(ret.articles) :
                  \E f \in disk : f.dir = ret.date /\ f.body = ret.articles[i]
           /\ ret.date \notin DateDirs(disk) => ret.articles = <<>>

\* C28 as stated: list_articles(limit) without a date returns min(limit, number of
\* readable articles) articles, and they are the most recently modified ones of
\* the whole store: no omitted readable article was modified later than a
\* returned one; with a date every returned article comes from that partition,
\* and a partition that does not exist gives the empty list.
C28_ListMostRecent ==
    ret.op = "list_articles"
        => /\ ret.date = <<>>
                  => /\ Len(ret.articles) = Min(ret.limit, Cardinality(Listable(<<>>)))
                     /\ \A f \in Listed, g \in Listable(<<>>) \ Listed :
                            ~(g.mtime > f.mtime)
           /\ ListOfPartition

\* f comes before g in list_articles' order: in a partition of a later name, or in
\* the same partition and modified later.
ListedBefore(f, g) ==
    \/ StrLess(g.dir, f.dir)
    \/ g.dir = f.dir /\ g.mtime < f.mtime

\* C28, amended: list_articles(limit) without a date returns min(limit, number of
\* readable articles) articles, taken partition by partition in descending order
\* of the partition names and within a partition the most recently modified
\* first: every returned article comes before every omitted readable one in that
\* order; with a date every returned article comes from that partition, and a
\* partition that does not exist gives the empty list.
C28_ListNewestPartitionFirst ==
    ret.op = "list_articles"
        => /\ ret.date = <<>>
                  => /\ Len(ret.articles) = Min(ret.limit, Cardinality(Listable(<<>>)))
                     /\ \A f \in Listed, g \in Listable(<<>>) \ Listed :
                            ListedBefore(f, g)
           /\ ListOfPartition

\* list_articles(1) returned the later modified of today's two readable articles
\* and left out an article of an older partition that was modified after it.
C28_Witness ==
    /\ ret.op = "list_articles" /\ ret.date = <<>> /\ ret.limit = 1
    /\ \E f \in Listed, g, h \in Listable(<<>>) \ Listed :
           /\ f.dir = D2 /\ g.dir = D2 /\ g.mtime < f.mtime
           /\ h.dir = D1 /\ h.mtime > f.mtime


-----------------------------------------------------------------------------
(* C29: the order of the search results *)

\* The files that match the last search: readable, in a date partition, not
\* excluded, with at least min_hits distinct keywords in their text.
Matching ==
    {f \in Readable(disk) :
        /\ f.dir # <<>>
        /\ f.id \notin ret.exclude_ids
        /\ Cardinality(DistinctMatching(ret.keywords, f.body)) >= ret.min_hits}
\* The matching file that the i-th result of the last search stands for.
ResultFiles(i) ==
    {f \in Matching : /\ f.id = ret.matches[i].article_id
                      /\ f.body = ret.matches[i].article}
\* f is scanned before g: its partition has the later name, or the partition is
\* the same and its file name is the later one.
ScannedBefore(f, g) ==
    \/ StrLess(g.dir, f.dir)
    \/ g.dir = f.dir /\ NameLess(g.id, f.id)

-----------------------------------------------------------------------------
(* C23: the url index of an instance does not see the other instance's stores *)

FindStep == pc = "idle" /\ ret'.op = "find_article_by_url" /\ ret' # ret
UrlFiles(files, u) == {f \in files : FileUrl(f) = u}

\* C23: when another instance on the same root stores an article with url u after
\* this instance was constructed, this instance's url_to_id does not change:
\* find_article_by_url(u) answers None for every url that is not in url_to_id,
\* whatever the files hold; an entry of url_to_id appears or changes only in a
\* store of this instance for that url, under the id of that call (no call reads
\* the index again from the disk);
\* and an ingest of an article with url u through this instance, under an id that
\* has no file, is answered "created" and adds a file with url u to the one that
\* is there.
C23_StaleUrlIndex ==
    [][/\ \A u \in Urls :
              Get(url_to_id', u) # Get(url_to_id, u)
                  => /\ ret' # ret
                     /\ ret'.op \in {"store_article", "ingest_article"}
                     /\ ArgUrl(ret'.art) = u
                     /\ Get(url_to_id', u) \in {ret'.val, ArgId(ret'.art)}
       /\ (FindStep /\ ~Has(url_to_id, ret'.key)) => ret'.val = None
       /\ (/\ IngestStep
           /\ Len(ret'.art) = 1
           /\ Truthy(ArgUrl(ret'.art))
           /\ ~Has(url_to_id, ArgUrl(ret'.art))
           /\ UrlFiles(disk, ArgUrl(ret'.art)) # {}
           /\ \A f \in disk : f.id # ret'.val /\ f.id # ArgId(ret'.art))
              => /\ ret'.status = "created"
                 /\ Cardinality(UrlFiles(disk', ArgUrl(ret'.art)))
                        = Cardinality(UrlFiles(disk, ArgUrl(ret'.art))) + 1]_vars

\* The other instance stored B.json with url u after this instance was
\* constructed over an empty root; an ingest of url u through this instance was
\* answered "created" under a generated id, and two files carry u.
C23_Witness ==
    /\ ret.op = "ingest_article" /\ ret.status = "created" /\ ret.val = "A"
    /\ ret.art = <<[url |-> "u"]>>
    /\ \E f, g \in disk : /\ f.id = "B" /\ FileUrl(f) = "u" /\ Has(f.body[1], "title")
                          /\ g.id = "A" /\ FileUrl(g) = "u"
    /\ url_to_id = [u |-> "A"]


-----------------------------------------------------------------------------
(* C21: two concurrent stores of one new id *)

\* Both threads' store_article calls returned after writing, for the same id.
BothStored ==
    /\ \A t \in Threads : ret[t].op = "store_article" /\ ret[t].status = "stored"
    /\ ret[1].val = ret[2].val
\* Where thread t's call filed its article, and what it filed.
StoredBody(t) == unwrap_article(ret[t].art)
StoredDir(t) == TargetDir(StoredBody(t)[1], today_str)

-----------------------------------------------------------------------------
(* C22: concurrent ingests *)

\* Thread t's ingest_article call returns "created" in this step.
IngestCreated(t) ==
    /\ ret'[t] # ret[t]
    /\ ret'[t].op = "ingest_article" /\ ret'[t].status = "created"

\* C22: under every interleaving of concurrent ingest_article calls on one
\* instance, an ingest that returns "created" with argos_id i leaves a file
\* {i}.json whose content is that call's own article, and two ingests of
\* different articles never both report "created" for the same argos_id.
C22_NoDroppedIngest ==
    [][/\ \A t \in Threads :
              IngestCreated(t)
                  => \E f \in disk' : /\ f.id = ret'[t].val
                                      /\ f.body = unwrap_article(ret'[t].art)
       /\ ~(/\ \A t \in Threads : /\ ret'[t].op = "ingest_article"
                                  /\ ret'[t].status = "created"
            /\ ret'[1].val = ret'[2].val
            /\ ret'[1].art # ret'[2].art)]_vars

====
